---- MODULE Spec2Model ----
(***************************************************************************)
(* Request-time security pipeline of PropChain-BackEnd:                    *)
(* SecurityMiddleware.use and SecurityMiddleware.getClientIp.              *)
(*                                                                         *)
(* Strings that the code takes apart (the address headers) are sequences   *)
(* of one-character strings, so that split(',') and trim() are computed.   *)
(* The three injected services are collaborators of the middleware: each   *)
(* call answers with any value of its result type, or throws.              *)
(***************************************************************************)
EXTENDS Integers, Sequences, FiniteSets, TLC

VARIABLES
    req,          \* the inbound request: address sources, user-agent, path
    pc,           \* position of use() in its body
    clientIp,     \* const clientIp   (line 50)
    userAgent,    \* const userAgent  (line 51)
    blockCheck,   \* const blockCheck (line 55)
    ddosCheck,    \* const ddosCheck  (line 72)
    ddosBlocked,  \* value of the awaited isIpBlockedForDdos (line 89)
    secHeaders,   \* const securityHeaders (line 100)
    resStatus,    \* res.status(...) ; 0 while no response was started
    resBody,      \* res.json(...)
    resHeaders,   \* headers set on the response with res.setHeader
    security,     \* (req as any).security
    nextCalls,    \* number of times next() was invoked
    calls,        \* service calls made so far, in order, with arguments
    stages,       \* pipeline stages entered so far, in order
    error,        \* the service call whose exception reached the catch block
    escaped,      \* TRUE when an exception left use()
    now,          \* the clock of the services (Date.now())
    blocklist,    \* IpBlockingService: the BlockEntry slots of every client key
    pending,      \* addBlock / removeBlock calls invoked and not yet applied
    window,       \* DdosProtectionService: the TrafficWindow of every client key
    decision,     \* the answer of the latest service query
    history,      \* what was asked of the services so far (for the properties)
    rq,           \* the requests of one client that run use() concurrently
    store,        \* PropertiesService: the property table behind prisma
    outcome       \* the latest PropertiesService call and how it ended

vars == <<req, pc, clientIp, userAgent, blockCheck, ddosCheck, ddosBlocked,
          secHeaders, resStatus, resBody, resHeaders, security, nextCalls,
          calls, stages, error, escaped,
          now, blocklist, pending, window, decision, history, rq,
          store, outcome>>

\* the variables of one call of use()
useVars == <<req, pc, clientIp, userAgent, blockCheck, ddosCheck, ddosBlocked,
             secHeaders, resStatus, resBody, resHeaders, security, nextCalls,
             calls, stages, error, escaped>>

\* the variables of the services and of the concurrent requests
svcVars == <<now, blocklist, pending, window, decision, history, rq>>

\* the variables of PropertiesService
propVars == <<store, outcome>>

----------------------------------------------------------------------------
(* Bounds *)

\* longest x-forwarded-for value when getClientIp is checked on its own
MaxXffLen == 3
\* longest x-real-ip / remoteAddress value when getClientIp is checked on its own
MaxAddrLen == 2
\* longest address source of a request that runs through use()
MaxReqLen == 1

----------------------------------------------------------------------------
(* JavaScript values *)

\* undefined: a missing header or property
Undefined == <<"undefined">>
\* no value assigned yet (a const before its declaration ran)
NoResult == [none |-> TRUE]

\* characters of the address strings; " " is whitespace and "," separates the
\* entries of x-forwarded-for. Each source has a letter of its own, so that a
\* resolved address shows which source it was read from.
WhiteSpace == {" "}
XffChars == {"f", " ", ","}
RealIpChars == {"r", " "}
ConnChars == {"c", " "}
SockChars == {"s", " "}

Strings(chars, n) == UNION {[1..k -> chars] : k \in 0..n}

\* the falsy strings of JavaScript: undefined and ''
Truthy(v) == v # Undefined /\ v # <<>>

\* a || b
Or(a, b) == IF Truthy(a) THEN a ELSE b

\* String.prototype.split(sep): the list of fields between separators
RECURSIVE Split(_, _)
Split(s, sep) ==
    IF \A i \in 1..Len(s) : s[i] # sep
    THEN <<s>>
    ELSE LET k == CHOOSE i \in 1..Len(s) :
                      s[i] = sep /\ \A j \in 1..(i - 1) : s[j] # sep
         IN  <<SubSeq(s, 1, k - 1)>> \o Split(SubSeq(s, k + 1, Len(s)), sep)

RECURSIVE TrimStart(_)
TrimStart(s) ==
    IF s # <<>> /\ Head(s) \in WhiteSpace THEN TrimStart(Tail(s)) ELSE s

RECURSIVE TrimEnd(_)
TrimEnd(s) ==
    IF s # <<>> /\ s[Len(s)] \in WhiteSpace
    THEN TrimEnd(SubSeq(s, 1, Len(s) - 1))
    ELSE s

\* String.prototype.trim()
Trim(s) == TrimEnd(TrimStart(s))

\* the sentinel 'unknown'
Unknown == <<"u", "n", "k", "n", "o", "w", "n">>

----------------------------------------------------------------------------
(* SecurityMiddleware.getClientIp *)

\* req.headers['x-forwarded-for']?.toString().split(',')[0]?.trim()
ForwardedFor(r) ==
    IF r.xff = Undefined THEN Undefined ELSE Trim(Split(r.xff, ",")[1])

\* variant: x-real-ip is read before x-forwarded-for
getClientIp_RealIpFirst(r) ==
    Or(r.xri, Or(ForwardedFor(r), Or(r.conn, Or(r.sock, Unknown))))

\* variant: the sentinel is left out of the chain
getClientIp_NoSentinel(r) ==
    Or(ForwardedFor(r), Or(r.xri, Or(r.conn, r.sock)))

getClientIp(r) ==
    Or(ForwardedFor(r), Or(r.xri, Or(r.conn, Or(r.sock, Unknown))))

----------------------------------------------------------------------------
(* The collaborators' answers *)

\* a rejected promise or a thrown exception
Throws == [throws |-> TRUE]

Reasons == {"manual block", "bad bot"}

\* BlockCheckResult {shouldBlock, reason}; reason may be missing
BlockCheckResults == [shouldBlock : BOOLEAN, reason : Reasons \cup {"undefined"}]

\* AttackDecision; use() reads isAttack only
AttackDecisions == [isAttack : BOOLEAN]

\* the header maps getSecurityHeaders may return, as sets of <<name, value>>
HeaderEntries == {<<"X-Frame-Options", "DENY">>,
                  <<"X-Content-Type-Options", "nosniff">>}
HeaderMaps == SUBSET HeaderEntries

\* res.setHeader(key, value) for every entry of the map
SetHeaders(headers, entries) ==
    {h \in headers : \A e \in entries : e[1] # h[1]} \cup entries

Call(fn, args) == [fn |-> fn, args |-> args]

Called(fn) == \E i \in 1..Len(calls) : calls[i].fn = fn

----------------------------------------------------------------------------
(* The inbound requests *)

UserAgents == {Undefined, <<>>, <<"c", "u", "r", "l">>}
Paths == {<<"/", "a", "p", "i">>}

RequestsOfLen(nXff, nAddr, agents) ==
    [xff  : {Undefined} \cup Strings(XffChars, nXff),
     xri  : {Undefined} \cup Strings(RealIpChars, nAddr),
     conn : {Undefined} \cup Strings(ConnChars, nAddr),
     sock : {Undefined} \cup Strings(SockChars, nAddr),
     ua   : agents,
     path : Paths]

----------------------------------------------------------------------------
(* SecurityMiddleware.use, one action per pipeline stage *)

\* res.status(status).json({statusCode, message, reason, timestamp})
Respond(status, message, reason) ==
    /\ resStatus' = status
    /\ resBody' = [statusCode |-> status, message |-> message,
                   reason |-> reason, timestamp |-> "toISOString"]

\* variant: the blocklist query is left out
Identify_SkipsBlocklist ==
    /\ pc = "START"
    /\ stages' = Append(stages, "IDENTIFY")
    /\ clientIp' = getClientIp(req)
    /\ userAgent' = Or(req.ua, <<>>)
    /\ pc' = "TRAFFIC_MONITOR"
    /\ UNCHANGED <<req, blockCheck, ddosCheck, ddosBlocked, secHeaders,
                   resStatus, resBody, resHeaders, security, nextCalls,
                   calls, error, escaped>>
    /\ UNCHANGED svcVars
    /\ UNCHANGED propVars

\* lines 50-52
Identify ==
    /\ pc = "START"
    /\ stages' = Append(stages, "IDENTIFY")
    /\ clientIp' = getClientIp(req)
    /\ userAgent' = Or(req.ua, <<>>)
    /\ pc' = "BLOCKLIST_CHECK"
    /\ UNCHANGED <<req, blockCheck, ddosCheck, ddosBlocked, secHeaders,
                   resStatus, resBody, resHeaders, security, nextCalls,
                   calls, error, escaped>>
    /\ UNCHANGED svcVars
    /\ UNCHANGED propVars

\* variant: next() is invoked after the 403 response as well
BlocklistCheck_AlsoForwards ==
    /\ pc = "BLOCKLIST_CHECK"
    /\ stages' = Append(stages, "BLOCKLIST_CHECK")
    /\ calls' = Append(calls, Call("shouldBlockRequest",
                                   <<clientIp, userAgent, req.path>>))
    /\ \/ /\ error' = "shouldBlockRequest"
          /\ pc' = "CATCH"
          /\ UNCHANGED <<blockCheck, resStatus, resBody, nextCalls>>
       \/ \E out \in BlockCheckResults :
             /\ blockCheck' = out
             /\ error' = error
             /\ IF out.shouldBlock
                THEN /\ Respond(403, "Access forbidden", out.reason)
                     /\ nextCalls' = nextCalls + 1
                     /\ pc' = "DONE"
                ELSE /\ pc' = "TRAFFIC_MONITOR"
                     /\ UNCHANGED <<resStatus, resBody, nextCalls>>
    /\ UNCHANGED <<req, clientIp, userAgent, ddosCheck, ddosBlocked,
                   secHeaders, resHeaders, security, escaped>>
    /\ UNCHANGED svcVars
    /\ UNCHANGED propVars

\* variant: the 403 branch does not return
BlocklistCheck_NoReturn ==
    /\ pc = "BLOCKLIST_CHECK"
    /\ stages' = Append(stages, "BLOCKLIST_CHECK")
    /\ calls' = Append(calls, Call("shouldBlockRequest",
                                   <<clientIp, userAgent, req.path>>))
    /\ \/ /\ error' = "shouldBlockRequest"
          /\ pc' = "CATCH"
          /\ UNCHANGED <<blockCheck, resStatus, resBody>>
       \/ \E out \in BlockCheckResults :
             /\ blockCheck' = out
             /\ error' = error
             /\ pc' = "TRAFFIC_MONITOR"
             /\ IF out.shouldBlock
                THEN Respond(403, "Access forbidden", out.reason)
                ELSE UNCHANGED <<resStatus, resBody>>
    /\ UNCHANGED <<req, clientIp, userAgent, ddosCheck, ddosBlocked,
                   secHeaders, resHeaders, security, nextCalls, escaped>>
    /\ UNCHANGED svcVars
    /\ UNCHANGED propVars

\* variant: traffic is accounted before a blocked request is answered
BlocklistCheck_MonitorsBlocked ==
    /\ pc = "BLOCKLIST_CHECK"
    /\ stages' = Append(stages, "BLOCKLIST_CHECK")
    /\ \/ /\ error' = "shouldBlockRequest"
          /\ pc' = "CATCH"
          /\ calls' = Append(calls, Call("shouldBlockRequest",
                                         <<clientIp, userAgent, req.path>>))
          /\ UNCHANGED <<blockCheck, resStatus, resBody>>
       \/ \E out \in BlockCheckResults :
             /\ blockCheck' = out
             /\ error' = error
             /\ IF out.shouldBlock
                THEN /\ calls' = calls \o
                          <<Call("shouldBlockRequest",
                                 <<clientIp, userAgent, req.path>>),
                            Call("monitorTraffic",
                                 <<clientIp, req.path, userAgent>>)>>
                     /\ Respond(403, "Access forbidden", out.reason)
                     /\ pc' = "DONE"
                ELSE /\ calls' = Append(calls, Call("shouldBlockRequest",
                                         <<clientIp, userAgent, req.path>>))
                     /\ pc' = "TRAFFIC_MONITOR"
                     /\ UNCHANGED <<resStatus, resBody>>
    /\ UNCHANGED <<req, clientIp, userAgent, ddosCheck, ddosBlocked,
                   secHeaders, resHeaders, security, nextCalls, escaped>>
    /\ UNCHANGED svcVars
    /\ UNCHANGED propVars

\* lines 54-69
BlocklistCheck ==
    /\ pc = "BLOCKLIST_CHECK"
    /\ stages' = Append(stages, "BLOCKLIST_CHECK")
    /\ calls' = Append(calls, Call("shouldBlockRequest",
                                   <<clientIp, userAgent, req.path>>))
    /\ \/ /\ error' = "shouldBlockRequest"
          /\ pc' = "CATCH"
          /\ UNCHANGED <<blockCheck, resStatus, resBody>>
       \/ \E out \in BlockCheckResults :
             /\ blockCheck' = out
             /\ error' = error
             /\ IF out.shouldBlock
                THEN /\ Respond(403, "Access forbidden", out.reason)
                     /\ pc' = "DONE"
                ELSE /\ pc' = "TRAFFIC_MONITOR"
                     /\ UNCHANGED <<resStatus, resBody>>
    /\ UNCHANGED <<req, clientIp, userAgent, ddosCheck, ddosBlocked,
                   secHeaders, resHeaders, security, nextCalls, escaped>>
    /\ UNCHANGED svcVars
    /\ UNCHANGED propVars

\* variant: a declared attack is not answered
TrafficMonitor_IgnoresAttack ==
    /\ pc = "TRAFFIC_MONITOR"
    /\ stages' = Append(stages, "TRAFFIC_MONITOR")
    /\ calls' = Append(calls, Call("monitorTraffic",
                                   <<clientIp, req.path, userAgent>>))
    /\ \/ /\ error' = "monitorTraffic"
          /\ pc' = "CATCH"
          /\ UNCHANGED <<ddosCheck, resStatus, resBody>>
       \/ \E out \in AttackDecisions :
             /\ ddosCheck' = out
             /\ error' = error
             /\ pc' = "DDOS_BLOCK_CHECK"
             /\ UNCHANGED <<resStatus, resBody>>
    /\ UNCHANGED <<req, clientIp, userAgent, blockCheck, ddosBlocked,
                   secHeaders, resHeaders, security, nextCalls, escaped>>
    /\ UNCHANGED svcVars
    /\ UNCHANGED propVars

\* variant: one gate only, the auto-block state is not read when the
\* monitor found no attack
TrafficMonitor_SingleGate ==
    /\ pc = "TRAFFIC_MONITOR"
    /\ stages' = Append(stages, "TRAFFIC_MONITOR")
    /\ calls' = Append(calls, Call("monitorTraffic",
                                   <<clientIp, req.path, userAgent>>))
    /\ \/ /\ error' = "monitorTraffic"
          /\ pc' = "CATCH"
          /\ UNCHANGED <<ddosCheck, resStatus, resBody>>
       \/ \E out \in AttackDecisions :
             /\ ddosCheck' = out
             /\ error' = error
             /\ IF out.isAttack
                THEN /\ Respond(429, "Too many requests",
                                "Potential DDoS attack detected")
                     /\ pc' = "DONE"
                ELSE /\ pc' = "APPLY_HEADERS"
                     /\ UNCHANGED <<resStatus, resBody>>
    /\ UNCHANGED <<req, clientIp, userAgent, blockCheck, ddosBlocked,
                   secHeaders, resHeaders, security, nextCalls, escaped>>
    /\ UNCHANGED svcVars
    /\ UNCHANGED propVars

\* lines 71-86
TrafficMonitor ==
    /\ pc = "TRAFFIC_MONITOR"
    /\ stages' = Append(stages, "TRAFFIC_MONITOR")
    /\ calls' = Append(calls, Call("monitorTraffic",
                                   <<clientIp, req.path, userAgent>>))
    /\ \/ /\ error' = "monitorTraffic"
          /\ pc' = "CATCH"
          /\ UNCHANGED <<ddosCheck, resStatus, resBody>>
       \/ \E out \in AttackDecisions :
             /\ ddosCheck' = out
             /\ error' = error
             /\ IF out.isAttack
                THEN /\ Respond(429, "Too many requests",
                                "Potential DDoS attack detected")
                     /\ pc' = "DONE"
                ELSE /\ pc' = "DDOS_BLOCK_CHECK"
                     /\ UNCHANGED <<resStatus, resBody>>
    /\ UNCHANGED <<req, clientIp, userAgent, blockCheck, ddosBlocked,
                   secHeaders, resHeaders, security, nextCalls, escaped>>
    /\ UNCHANGED svcVars
    /\ UNCHANGED propVars

\* variant: the headers are written before the auto-block gate answers
DdosBlockCheck_HeadersFirst ==
    /\ pc = "DDOS_BLOCK_CHECK"
    /\ stages' = Append(stages, "DDOS_BLOCK_CHECK")
    /\ calls' = Append(calls, Call("isIpBlockedForDdos", <<clientIp>>))
    /\ \/ /\ error' = "isIpBlockedForDdos"
          /\ pc' = "CATCH"
          /\ UNCHANGED <<ddosBlocked, resStatus, resBody, resHeaders>>
       \/ \E out \in BOOLEAN :
             /\ ddosBlocked' = [blocked |-> out]
             /\ error' = error
             /\ resHeaders' = SetHeaders(resHeaders, HeaderEntries)
             /\ IF out
                THEN /\ Respond(429, "Too many requests",
                                "IP blocked due to DDoS protection")
                     /\ pc' = "DONE"
                ELSE /\ pc' = "APPLY_HEADERS"
                     /\ UNCHANGED <<resStatus, resBody>>
    /\ UNCHANGED <<req, clientIp, userAgent, blockCheck, ddosCheck,
                   secHeaders, security, nextCalls, escaped>>
    /\ UNCHANGED svcVars
    /\ UNCHANGED propVars

\* lines 88-97
DdosBlockCheck ==
    /\ pc = "DDOS_BLOCK_CHECK"
    /\ stages' = Append(stages, "DDOS_BLOCK_CHECK")
    /\ calls' = Append(calls, Call("isIpBlockedForDdos", <<clientIp>>))
    /\ \/ /\ error' = "isIpBlockedForDdos"
          /\ pc' = "CATCH"
          /\ UNCHANGED <<ddosBlocked, resStatus, resBody>>
       \/ \E out \in BOOLEAN :
             /\ ddosBlocked' = [blocked |-> out]
             /\ error' = error
             /\ IF out
                THEN /\ Respond(429, "Too many requests",
                                "IP blocked due to DDoS protection")
                     /\ pc' = "DONE"
                ELSE /\ pc' = "APPLY_HEADERS"
                     /\ UNCHANGED <<resStatus, resBody>>
    /\ UNCHANGED <<req, clientIp, userAgent, blockCheck, ddosCheck,
                   secHeaders, resHeaders, security, nextCalls, escaped>>
    /\ UNCHANGED svcVars
    /\ UNCHANGED propVars

\* lines 99-103
ApplyHeaders ==
    /\ pc = "APPLY_HEADERS"
    /\ stages' = Append(stages, "APPLY_HEADERS")
    /\ calls' = Append(calls, Call("getSecurityHeaders", <<>>))
    /\ \/ /\ error' = "getSecurityHeaders"
          /\ pc' = "CATCH"
          /\ UNCHANGED <<secHeaders, resHeaders>>
       \/ \E out \in HeaderMaps :
             /\ secHeaders' = [entries |-> out]
             /\ error' = error
             /\ resHeaders' = SetHeaders(resHeaders, out)
             /\ pc' = "ATTACH_CONTEXT"
    /\ UNCHANGED <<req, clientIp, userAgent, blockCheck, ddosCheck,
                   ddosBlocked, resStatus, resBody, security, nextCalls,
                   escaped>>
    /\ UNCHANGED svcVars
    /\ UNCHANGED propVars

\* lines 105-110
AttachContext ==
    /\ pc = "ATTACH_CONTEXT"
    /\ stages' = Append(stages, "ATTACH_CONTEXT")
    /\ security' = [clientIp |-> clientIp, userAgent |-> userAgent,
                    timestamp |-> "Date.now"]
    /\ pc' = "FORWARD"
    /\ UNCHANGED <<req, clientIp, userAgent, blockCheck, ddosCheck,
                   ddosBlocked, secHeaders, resStatus, resBody, resHeaders,
                   nextCalls, calls, error, escaped>>
    /\ UNCHANGED svcVars
    /\ UNCHANGED propVars

\* line 112
Forward ==
    /\ pc = "FORWARD"
    /\ stages' = Append(stages, "FORWARD")
    /\ nextCalls' = nextCalls + 1
    /\ pc' = "DONE"
    /\ UNCHANGED <<req, clientIp, userAgent, blockCheck, ddosCheck,
                   ddosBlocked, secHeaders, resStatus, resBody, resHeaders,
                   security, calls, error, escaped>>
    /\ UNCHANGED svcVars
    /\ UNCHANGED propVars

\* variant: the catch block rethrows instead of failing open
CatchError_Rethrows ==
    /\ pc = "CATCH"
    /\ escaped' = TRUE
    /\ pc' = "DONE"
    /\ UNCHANGED <<req, clientIp, userAgent, blockCheck, ddosCheck,
                   ddosBlocked, secHeaders, resStatus, resBody, resHeaders,
                   security, nextCalls, calls, stages, error>>
    /\ UNCHANGED svcVars
    /\ UNCHANGED propVars

\* variant: the catch block answers 500 instead of failing open
CatchError_Responds500 ==
    /\ pc = "CATCH"
    /\ Respond(500, "Internal server error", "undefined")
    /\ pc' = "DONE"
    /\ UNCHANGED <<req, clientIp, userAgent, blockCheck, ddosCheck,
                   ddosBlocked, secHeaders, resHeaders, security, nextCalls,
                   calls, stages, error, escaped>>
    /\ UNCHANGED svcVars
    /\ UNCHANGED propVars

\* lines 113-117: the catch block logs, then fails open
CatchError ==
    /\ pc = "CATCH"
    /\ nextCalls' = nextCalls + 1
    /\ pc' = "DONE"
    /\ UNCHANGED <<req, clientIp, userAgent, blockCheck, ddosCheck,
                   ddosBlocked, secHeaders, resStatus, resBody, resHeaders,
                   security, calls, stages, error, escaped>>
    /\ UNCHANGED svcVars
    /\ UNCHANGED propVars

----------------------------------------------------------------------------
(* The services behind the middleware, as the design describes them        *)
(* (sections 3, 4.2, 4.3 and 5): their sources are not part of the         *)
(* repository files at hand.                                               *)

\* the clock stops here
MaxTime == 2
\* administrative calls (addBlock, removeBlock) invoked in one behaviour
MaxOps == 2
\* monitorTraffic calls in one behaviour
MaxHits == 4
\* requests of one client inside use() at the same time
NumReq == 3

\* configuration: attack when more than BurstThreshold hits fall in the short
\* horizon or more than SustainedThreshold in the long one; horizons, TTL of
\* an auto-block and inactivity period in clock ticks
BurstThreshold == 2
SustainedThreshold == 3
ShortHorizon == 1
LongHorizon == 2
AutoBlockTtl == 2
InactivityPeriod == 2

\* resolved client keys
Keys == {<<"c">>, <<"s">>}

\* the optional ttl of addBlock; NoTtl: a permanent entry
NoTtl == 0
Ttls == {NoTtl, 1}

\* expiresAt of a permanent BlockEntry
NoExpiry == -1

Max(a, b) == IF a >= b THEN a ELSE b

\* BlockEntry {reason, createdAt, expiresAt, source}; the key is the slot
BlockEntry(reason, createdAt, expiresAt, source) ==
    [reason |-> reason, createdAt |-> createdAt, expiresAt |-> expiresAt,
     source |-> source]

\* variant: an entry without expiresAt counts as expired
Live_NoPermanent(e, t) ==
    /\ e # NoResult
    /\ e.expiresAt > t

\* an expired entry is treated as absent
Live(e, t) ==
    /\ e # NoResult
    /\ e.expiresAt = NoExpiry \/ e.expiresAt > t

\* the slots of a key: a manual entry, an auto entry (section 4.2 ranks the
\* two, so both can be there), and the creation time up to which entries of
\* the key were removed
EmptySlots == [manual |-> NoResult, auto |-> NoResult, removedAt |-> -1]

\* IpBlockingService.shouldBlockRequest: manual entry, auto entry, allow
shouldBlockRequest(slots, t) ==
    IF Live(slots.manual, t)
    THEN [shouldBlock |-> TRUE, reason |-> slots.manual.reason]
    ELSE IF Live(slots.auto, t)
         THEN [shouldBlock |-> TRUE, reason |-> slots.auto.reason]
         ELSE [shouldBlock |-> FALSE, reason |-> "undefined"]

\* the entry of an addBlock call: no ttl, no expiry
ManualEntry(op) ==
    BlockEntry(op.reason, op.at,
               IF op.ttl = NoTtl THEN NoExpiry ELSE op.at + op.ttl, "manual")

\* variant: addBlock writes whatever is stored (plain last-writer-wins)
ApplyAdd_Overwrites(slots, op) ==
    [slots EXCEPT
        !.manual = ManualEntry(op)]

\* the conflict rule: an addBlock is written unless a removal or an entry of
\* a later creation time is there (last writer wins between entries of the
\* same creation time)
AddWins(slots, op) ==
    /\ op.at > slots.removedAt
    /\ slots.manual = NoResult \/ op.at >= slots.manual.createdAt

\* addBlock(key, reason, ttl?) applied to the slots of its key
ApplyAdd(slots, op) ==
    IF AddWins(slots, op)
    THEN [slots EXCEPT
            !.manual = ManualEntry(op)]
    ELSE slots

\* removeBlock(key) applied to the slots of its key: entries created up to
\* the removal go, later ones stay, and the removal is remembered
ApplyRemove(slots, op) ==
    [slots EXCEPT
        !.manual = IF @ # NoResult /\ @.createdAt <= op.at THEN NoResult ELSE @,
        !.auto   = IF @ # NoResult /\ @.createdAt <= op.at THEN NoResult ELSE @,
        !.removedAt = Max(@, op.at)]

\* variant: a repeated offense resets the TTL instead of extending it
InstallAutoBlock_Resets(slots, t) ==
    [slots EXCEPT
        !.auto = BlockEntry("ddos", t, t + 1, "auto")]

\* an attack installs an auto entry with a TTL, or extends the live one
InstallAutoBlock(slots, t) ==
    [slots EXCEPT
        !.auto = IF Live(@, t)
                 THEN [@ EXCEPT !.expiresAt = @ + AutoBlockTtl]
                 ELSE BlockEntry("ddos", t, t + AutoBlockTtl, "auto")]

\* DdosProtectionService.isIpBlockedForDdos: the auto-block state alone
isIpBlockedForDdos(slots, t) == Live(slots.auto, t)

\* TrafficWindow of a key: the times of its hits inside the long horizon
HitsSince(w, from) ==
    IF w = NoResult THEN 0
    ELSE Cardinality({i \in 1..Len(w.hits) : w.hits[i] > from})

SelectHits(hits, from) == SelectSeq(hits, LAMBDA h : h > from)

\* one more hit at time t; hits that left the long horizon are dropped
RecordHit(w, t) ==
    [hits |-> Append(IF w = NoResult THEN <<>>
                     ELSE SelectHits(w.hits, t - LongHorizon), t)]

\* AttackDecision of a window at time t
AttackDecision(w, t) ==
    LET short == HitsSince(w, t - ShortHorizon)
        long  == HitsSince(w, t - LongHorizon)
    IN  [isAttack |-> short > BurstThreshold \/ long > SustainedThreshold,
         short |-> short, long |-> long]

\* variant: a window is evicted whether or not it is active
Inactive_Always(w, t) == w # NoResult

\* a window is evicted after a period without a hit
Inactive(w, t) ==
    /\ w # NoResult
    /\ \A i \in 1..Len(w.hits) : t - w.hits[i] >= InactivityPeriod

\* nothing asked of the services yet
NoHistory == [ops |-> <<>>, applied |-> <<>>, hits |-> <<>>, evicted |-> {}]

SvcIdle ==
    /\ now = 0
    /\ blocklist = [k \in Keys |-> EmptySlots]
    /\ pending = {}
    /\ window = [k \in Keys |-> NoResult]
    /\ decision = NoResult
    /\ history = NoHistory
    /\ rq = <<>>

----------------------------------------------------------------------------
(* PropertiesService: the status workflow of a property                    *)

PropertyIds == {"p1", "p2"}

\* a field the DTO does not carry
Absent == "undefined"

\* DTOPropertyStatus, and OTHER for any value outside statusMap
DtoStatuses == {"AVAILABLE", "PENDING", "SOLD", "RENTED", "OTHER"}

\* statusMap[status] || 'DRAFT'
mapPropertyStatus(status) ==
    CASE status = "AVAILABLE" -> "LISTED"
      [] status = "PENDING"   -> "PENDING"
      [] status = "SOLD"      -> "SOLD"
      [] status = "RENTED"    -> "SOLD"
      [] OTHER                -> "DRAFT"

validTransitions ==
    [DRAFT    |-> {"DRAFT", "PENDING", "APPROVED"},
     PENDING  |-> {"PENDING", "APPROVED", "DRAFT"},
     APPROVED |-> {"APPROVED", "LISTED", "DRAFT"},
     LISTED   |-> {"LISTED", "SOLD", "REMOVED"},
     SOLD     |-> {"SOLD"},
     REMOVED  |-> {"REMOVED", "DRAFT"}]

\* validTransitions[currentStatus]?.includes(targetStatus) || false
isValidStatusTransition(currentStatus, targetStatus) ==
    /\ currentStatus \in DOMAIN validTransitions
    /\ targetStatus \in validTransitions[currentStatus]

\* the rows of the table: a status of the workflow and one more column
Titles == {"t1", "t2"}
Rows == [status : DOMAIN validTransitions, title : Titles]

\* the table the service is constructed over
Stores == [PropertyIds -> Rows \cup {NoResult}]

\* UpdatePropertyDto, as far as the two columns go
UpdateDtos == [title : Titles \cup {Absent}, status : DtoStatuses \cup {Absent}]

Outcome(fn, id, status, raised, before, wrote) ==
    [fn |-> fn, id |-> id, status |-> status, raised |-> raised,
     before |-> before, wrote |-> wrote]

\* update(id, updatePropertyDto)
Update ==
    /\ \E id \in PropertyIds, dto \in UpdateDtos :
        IF store[id] = NoResult
        THEN /\ outcome' = Outcome("update", id, dto.status,
                                   "NotFoundException", NoResult, FALSE)
             /\ UNCHANGED store
        ELSE /\ store' = [store EXCEPT ![id] =
                    [title  |-> IF dto.title # Absent THEN dto.title
                                ELSE @.title,
                     status |-> IF dto.status # Absent
                                THEN mapPropertyStatus(dto.status)
                                ELSE @.status]]
             /\ outcome' = Outcome("update", id, dto.status, "none",
                                   store[id], TRUE)
    /\ UNCHANGED useVars
    /\ UNCHANGED svcVars

\* variant: the target status is written without looking at the table
UpdateStatus_NoValidation ==
    /\ \E id \in PropertyIds, newStatus \in DtoStatuses :
        IF store[id] = NoResult
        THEN /\ outcome' = Outcome("updateStatus", id, newStatus,
                                   "NotFoundException", NoResult, FALSE)
             /\ UNCHANGED store
        ELSE /\ store' = [store EXCEPT ![id].status =
                                mapPropertyStatus(newStatus)]
             /\ outcome' = Outcome("updateStatus", id, newStatus,
                                   "none", store[id], TRUE)
    /\ UNCHANGED useVars
    /\ UNCHANGED svcVars

\* updateStatus(id, newStatus, userId?)
UpdateStatus ==
    /\ \E id \in PropertyIds, newStatus \in DtoStatuses :
        IF store[id] = NoResult
        THEN /\ outcome' = Outcome("updateStatus", id, newStatus,
                                   "NotFoundException", NoResult, FALSE)
             /\ UNCHANGED store
        ELSE LET targetStatus == mapPropertyStatus(newStatus)
             IN  IF ~isValidStatusTransition(store[id].status, targetStatus)
                 THEN /\ outcome' = Outcome("updateStatus", id, newStatus,
                                            "BadRequestException",
                                            store[id], FALSE)
                      /\ UNCHANGED store
                 ELSE /\ store' = [store EXCEPT ![id].status = targetStatus]
                      /\ outcome' = Outcome("updateStatus", id, newStatus,
                                            "none", store[id], TRUE)
    /\ UNCHANGED useVars
    /\ UNCHANGED svcVars

\* remove(id)
Remove ==
    /\ \E id \in PropertyIds :
        IF store[id] = NoResult
        THEN /\ outcome' = Outcome("remove", id, Absent,
                                   "NotFoundException", NoResult, FALSE)
             /\ UNCHANGED store
        ELSE /\ store' = [store EXCEPT ![id] = NoResult]
             /\ outcome' = Outcome("remove", id, Absent, "none",
                                   store[id], TRUE)
    /\ UNCHANGED useVars
    /\ UNCHANGED svcVars

----------------------------------------------------------------------------
(* Specifications *)

InitOver(requests, stores) ==
    /\ req \in requests
    /\ pc = "START"
    /\ clientIp = Undefined
    /\ userAgent = Undefined
    /\ blockCheck = NoResult
    /\ ddosCheck = NoResult
    /\ ddosBlocked = NoResult
    /\ secHeaders = NoResult
    /\ resStatus = 0
    /\ resBody = NoResult
    /\ resHeaders = {}
    /\ security = NoResult
    /\ nextCalls = 0
    /\ calls = <<>>
    /\ stages = <<>>
    /\ error = "none"
    /\ escaped = FALSE
    /\ SvcIdle
    /\ store \in stores
    /\ outcome = NoResult

\* the middleware and its services over an empty property table
InitWith(requests) == InitOver(requests, {[id \in PropertyIds |-> NoResult]})

\* one call of use() on any request
Init == InitWith(RequestsOfLen(MaxReqLen, MaxReqLen, UserAgents))

Next ==
    \/ Identify
    \/ BlocklistCheck
    \/ TrafficMonitor
    \/ DdosBlockCheck
    \/ ApplyHeaders
    \/ AttachContext
    \/ Forward
    \/ CatchError

Spec == Init /\ [][Next]_vars

\* getClientIp on its own, over longer address sources
InitIp == InitWith(RequestsOfLen(MaxXffLen, MaxAddrLen, {Undefined}))

NextIp == Identify

SpecIp == InitIp /\ [][NextIp]_vars

----------------------------------------------------------------------------
(* Properties of SecurityMiddleware.use, checked under Spec *)

CalledWith(fn, args) ==
    \E i \in 1..Len(calls) : calls[i] = Call(fn, args)

\* C1: a request whose blocklist query answered shouldBlock=true is answered
\* with status 403 carrying the reason of the blocklist, and next is never
\* invoked for it.
C1_BlockedGets403 ==
    (blockCheck # NoResult /\ blockCheck.shouldBlock) =>
        /\ resStatus = 403
        /\ resBody # NoResult
        /\ resBody.statusCode = 403
        /\ resBody.reason = blockCheck.reason
        /\ nextCalls = 0

C1_Witness ==
    /\ pc = "DONE"
    /\ blockCheck # NoResult
    /\ blockCheck.shouldBlock
    /\ blockCheck.reason = "manual block"
    /\ resStatus = 403

\* C2: when a service call (shouldBlockRequest, monitorTraffic,
\* isIpBlockedForDdos, getSecurityHeaders) throws, use() ends having invoked
\* next once, without a response of its own, and no exception leaves use().
C2_FailOpen ==
    /\ ~escaped
    /\ error # "none" => pc \in {"CATCH", "DONE"}
    /\ (error # "none" /\ pc = "DONE") => (nextCalls = 1 /\ resStatus = 0)

C2_Witness ==
    /\ pc = "DONE"
    /\ error = "getSecurityHeaders"
    /\ nextCalls = 1

\* C3: a request that passed the blocklist check and for which monitorTraffic
\* answered isAttack=true is answered with status 429 and the reason
\* "Potential DDoS attack detected", and next is not invoked.
C3_AttackGets429 ==
    (ddosCheck # NoResult /\ ddosCheck.isAttack) =>
        /\ blockCheck # NoResult /\ ~blockCheck.shouldBlock
        /\ resStatus = 429
        /\ resBody # NoResult
        /\ resBody.statusCode = 429
        /\ resBody.reason = "Potential DDoS attack detected"
        /\ nextCalls = 0

C3_Witness ==
    /\ pc = "DONE"
    /\ ddosCheck # NoResult
    /\ ddosCheck.isAttack
    /\ resStatus = 429

\* C4: the auto-block gate is a gate of its own: once monitorTraffic answered
\* isAttack=false, isIpBlockedForDdos(clientIp) is queried before anything
\* else happens, and when it answers true the request is answered with status
\* 429 and the reason "IP blocked due to DDoS protection" (not the reason of
\* the traffic-monitor gate) and is not forwarded.
C4_AutoBlockGate ==
    /\ (ddosCheck # NoResult /\ ~ddosCheck.isAttack /\ pc # "DDOS_BLOCK_CHECK")
          => CalledWith("isIpBlockedForDdos", <<clientIp>>)
    /\ (ddosBlocked # NoResult /\ ddosBlocked.blocked) =>
          /\ ddosCheck # NoResult /\ ~ddosCheck.isAttack
          /\ resStatus = 429
          /\ resBody # NoResult
          /\ resBody.reason = "IP blocked due to DDoS protection"
          /\ resBody.reason # "Potential DDoS attack detected"
          /\ nextCalls = 0

C4_Witness ==
    /\ pc = "DONE"
    /\ ddosCheck # NoResult
    /\ ~ddosCheck.isAttack
    /\ ddosBlocked # NoResult
    /\ ddosBlocked.blocked
    /\ resStatus = 429

\* the order of the stages in the body of use()
StageOrder == <<"IDENTIFY", "BLOCKLIST_CHECK", "TRAFFIC_MONITOR",
                "DDOS_BLOCK_CHECK", "APPLY_HEADERS", "ATTACH_CONTEXT",
                "FORWARD">>

Entered(stage) == \E i \in 1..Len(stages) : stages[i] = stage

\* C5: within one request the stages entered are an initial part of IDENTIFY,
\* BLOCKLIST_CHECK, TRAFFIC_MONITOR, DDOS_BLOCK_CHECK, APPLY_HEADERS,
\* ATTACH_CONTEXT, FORWARD: none is entered twice or out of order, and a
\* stage is entered only after the one before it completed without
\* short-circuiting.
C5_StageOrder ==
    /\ Len(stages) <= Len(StageOrder)
    /\ \A i \in 1..Len(stages) : stages[i] = StageOrder[i]
    /\ Entered("TRAFFIC_MONITOR") =>
          (blockCheck # NoResult /\ ~blockCheck.shouldBlock)
    /\ Entered("DDOS_BLOCK_CHECK") =>
          (ddosCheck # NoResult /\ ~ddosCheck.isAttack)
    /\ Entered("APPLY_HEADERS") =>
          (ddosBlocked # NoResult /\ ~ddosBlocked.blocked)
    /\ Entered("ATTACH_CONTEXT") => secHeaders # NoResult
    /\ Entered("FORWARD") => security # NoResult
    /\ resStatus # 0 => pc = "DONE"

C5_Witness ==
    /\ pc = "DONE"
    /\ stages = StageOrder

\* C6: for a request rejected by the blocklist check, monitorTraffic and
\* isIpBlockedForDdos are never invoked.
C6_NoAccountingWhenBlocked ==
    resStatus = 403 =>
        /\ ~Called("monitorTraffic")
        /\ ~Called("isIpBlockedForDdos")
        /\ Len(calls) = 1

C6_Witness ==
    /\ pc = "DONE"
    /\ resStatus = 403
    /\ calls = <<Call("shouldBlockRequest", <<clientIp, userAgent, req.path>>)>>

\* C7, as claimed: monitorTraffic is invoked for every request, those
\* answered 403 by the blocklist check included.
C7_MonitorAlwaysRuns ==
    pc = "DONE" => Called("monitorTraffic")

\* C7, amended: monitorTraffic is invoked exactly for the requests whose
\* blocklist check answered shouldBlock=false; a request answered 403 by the
\* blocklist check never reaches it.
C7_MonitorOnlyWhenNotBlocked ==
    /\ (pc \notin {"START", "BLOCKLIST_CHECK", "TRAFFIC_MONITOR"}) =>
          (Called("monitorTraffic") <=>
              (blockCheck # NoResult /\ ~blockCheck.shouldBlock))
    /\ (pc \in {"START", "BLOCKLIST_CHECK", "TRAFFIC_MONITOR"}) =>
          ~Called("monitorTraffic")

C7_Witness ==
    /\ pc = "DONE"
    /\ resStatus = 403
    /\ blockCheck # NoResult
    /\ blockCheck.shouldBlock
    /\ ~Called("monitorTraffic")

\* C8: a request handed to next has every header that getSecurityHeaders
\* returned set on the response and carries the security context {clientIp,
\* userAgent, timestamp} of the resolved client IP.
C8_ForwardedCarriesContext ==
    nextCalls > 0 =>
        /\ secHeaders # NoResult => secHeaders.entries \subseteq resHeaders
        /\ security # NoResult
        /\ security.clientIp = clientIp
        /\ security.userAgent = userAgent

----------------------------------------------------------------------------
(* Properties of SecurityMiddleware.getClientIp, checked under SpecIp *)

\* the first comma-separated entry of a string: what precedes its first ","
FirstEntry(s) ==
    LET commas == {i \in 1..Len(s) : s[i] = ","}
    IN  IF commas = {} THEN s
        ELSE SubSeq(s, 1, (CHOOSE i \in commas : \A j \in commas : i <= j) - 1)

\* s without the whitespace at its two ends
Stripped(s) ==
    LET inked == {i \in 1..Len(s) : s[i] \notin WhiteSpace}
    IN  IF inked = {} THEN <<>>
        ELSE SubSeq(s, CHOOSE i \in inked : \A j \in inked : i <= j,
                       CHOOSE i \in inked : \A j \in inked : i >= j)

\* the four sources of a request in their order of precedence; the value of
\* the first one is the first entry of x-forwarded-for, without the
\* whitespace around it
Source(r, i) ==
    CASE i = 1 -> IF r.xff = Undefined THEN Undefined
                  ELSE Stripped(FirstEntry(r.xff))
      [] i = 2 -> r.xri
      [] i = 3 -> r.conn
      [] i = 4 -> r.sock

\* a source holds a non-empty value
Holds(r, i) == Source(r, i) # Undefined /\ Source(r, i) # <<>>

\* a source holds a value that is not empty once trimmed
HoldsTrimmed(r, i) ==
    Source(r, i) # Undefined /\ Stripped(Source(r, i)) # <<>>

\* C9: the resolved IP is the value of the first source, in the order
\* x-forwarded-for (first entry), x-real-ip, connection.remoteAddress,
\* socket.remoteAddress, that holds a non-empty value, and "unknown" when none
\* does; the value of a lower source is never returned while a higher source
\* holds a non-empty value.
C9_FirstMatchWins ==
    pc # "START" =>
        /\ \A i \in 1..4 :
              (Holds(req, i) /\ \A j \in 1..(i - 1) : ~Holds(req, j))
                 => clientIp = Source(req, i)
        /\ (\A i \in 1..4 : ~Holds(req, i)) => clientIp = Unknown
        /\ \A i \in 1..4 :
              HoldsTrimmed(req, i) =>
                 \E k \in 1..i : Holds(req, k) /\ clientIp = Source(req, k)

C9_Witness ==
    /\ pc # "START"
    /\ req.xff = <<" ", ",", "f">>
    /\ req.xri = <<"r">>
    /\ req.conn = <<"c">>
    /\ req.sock = <<"s">>
    /\ clientIp = <<"r">>

\* C10: every source is trimmed and rejected when empty after trimming: the
\* resolved IP is the trimmed value of the first source that is not empty
\* once trimmed ("unknown" when there is none), so it never starts or ends
\* with whitespace.
C10_TrimmedAndRejectedIfEmpty ==
    pc # "START" =>
        /\ \A i \in 1..4 :
              (HoldsTrimmed(req, i) /\ \A j \in 1..(i - 1) : ~HoldsTrimmed(req, j))
                 => clientIp = Stripped(Source(req, i))
        /\ (\A i \in 1..4 : ~HoldsTrimmed(req, i)) => clientIp = Unknown
        /\ clientIp = Stripped(clientIp)

\* C11, as claimed: getClientIp always returns a string, and returns "unknown"
\* only when no source is present.
C11_UnknownOnlyWhenNonePresent ==
    pc # "START" =>
        /\ clientIp # Undefined
        /\ clientIp = Unknown =>
              /\ req.xff = Undefined
              /\ req.xri = Undefined
              /\ req.conn = Undefined
              /\ req.sock = Undefined

\* C11, amended: getClientIp always returns a non-empty string, and falls
\* back to the sentinel "unknown" exactly when no source holds a non-empty
\* value: every source is missing or empty (for x-forwarded-for: its first
\* entry is empty once trimmed).
C11_UnknownOnlyWhenNoneHolds ==
    pc # "START" =>
        /\ clientIp # Undefined
        /\ clientIp # <<>>
        /\ \A k \in 1..Len(clientIp) : clientIp[k] # "undefined"
        /\ clientIp = Unknown <=> \A i \in 1..4 : ~Holds(req, i)

C11_Witness ==
    /\ pc # "START"
    /\ req.xff = <<" ", ",", "f">>
    /\ req.xri = <<>>
    /\ req.conn = Undefined
    /\ req.sock = <<>>
    /\ clientIp = Unknown

----------------------------------------------------------------------------
(* Further properties of SecurityMiddleware.use, checked under Spec *)

\* the client key of a service call: its first argument
KeyOf(call) == call.args[1]

KeyedCalls == {"shouldBlockRequest", "monitorTraffic", "isIpBlockedForDdos"}

\* C12: within one request the key passed to shouldBlockRequest, to
\* monitorTraffic and to isIpBlockedForDdos and the one stored as
\* security.clientIp are the same resolved value, and that value is never an
\* untrimmed header value.
C12_SingleNormalizedKey ==
    /\ \A i \in 1..Len(calls) :
          calls[i].fn \in KeyedCalls =>
             /\ KeyOf(calls[i]) = clientIp
             /\ KeyOf(calls[i]) = Stripped(KeyOf(calls[i]))
    /\ security # NoResult =>
          /\ security.clientIp = clientIp
          /\ security.clientIp = Stripped(security.clientIp)

\* C13: the only responses use() writes have status 403 or 429; a request
\* that got neither, a failed stage included, is handed to next.
C13_Only403Or429 ==
    /\ resStatus \in {0, 403, 429}
    /\ error # "none" => resStatus = 0
    /\ pc = "DONE" =>
          \/ resStatus \in {403, 429} /\ nextCalls = 0
          \/ resStatus = 0 /\ nextCalls = 1

C13_Witness ==
    /\ pc = "DONE"
    /\ error = "isIpBlockedForDdos"
    /\ resStatus = 0
    /\ nextCalls = 1

\* C20: on every 403 or 429 exit no header of getSecurityHeaders is set on
\* the response and no security context is attached to the request.
C20_ShortCircuitLeavesUntouched ==
    resStatus # 0 =>
        /\ resHeaders = {}
        /\ secHeaders = NoResult
        /\ ~Called("getSecurityHeaders")
        /\ security = NoResult

C20_Witness ==
    /\ pc = "DONE"
    /\ resStatus = 429
    /\ resBody.reason = "IP blocked due to DDoS protection"
    /\ resHeaders = {}
    /\ security = NoResult

----------------------------------------------------------------------------
(* use() with a response object and a next that may throw                  *)
(* Every call inside the try block is covered by the catch block, also     *)
(* res.status(...).json(...), res.setHeader(...) and next() itself.        *)

\* lines 61-68: res.status(403) is applied, then json(...) throws
BlocklistRespondThrows ==
    /\ pc = "BLOCKLIST_CHECK"
    /\ stages' = Append(stages, "BLOCKLIST_CHECK")
    /\ calls' = Append(calls, Call("shouldBlockRequest",
                                   <<clientIp, userAgent, req.path>>))
    /\ \E out \in BlockCheckResults :
          /\ out.shouldBlock
          /\ blockCheck' = out
    /\ resStatus' = 403
    /\ error' = "res.json"
    /\ pc' = "CATCH"
    /\ UNCHANGED <<req, clientIp, userAgent, ddosCheck, ddosBlocked,
                   secHeaders, resBody, resHeaders, security, nextCalls,
                   escaped>>
    /\ UNCHANGED svcVars
    /\ UNCHANGED propVars

\* lines 78-85: res.status(429) is applied, then json(...) throws
TrafficRespondThrows ==
    /\ pc = "TRAFFIC_MONITOR"
    /\ stages' = Append(stages, "TRAFFIC_MONITOR")
    /\ calls' = Append(calls, Call("monitorTraffic",
                                   <<clientIp, req.path, userAgent>>))
    /\ ddosCheck' = [isAttack |-> TRUE]
    /\ resStatus' = 429
    /\ error' = "res.json"
    /\ pc' = "CATCH"
    /\ UNCHANGED <<req, clientIp, userAgent, blockCheck, ddosBlocked,
                   secHeaders, resBody, resHeaders, security, nextCalls,
                   escaped>>
    /\ UNCHANGED svcVars
    /\ UNCHANGED propVars

\* lines 89-96: res.status(429) is applied, then json(...) throws
DdosRespondThrows ==
    /\ pc = "DDOS_BLOCK_CHECK"
    /\ stages' = Append(stages, "DDOS_BLOCK_CHECK")
    /\ calls' = Append(calls, Call("isIpBlockedForDdos", <<clientIp>>))
    /\ ddosBlocked' = [blocked |-> TRUE]
    /\ resStatus' = 429
    /\ error' = "res.json"
    /\ pc' = "CATCH"
    /\ UNCHANGED <<req, clientIp, userAgent, blockCheck, ddosCheck,
                   secHeaders, resBody, resHeaders, security, nextCalls,
                   escaped>>
    /\ UNCHANGED svcVars
    /\ UNCHANGED propVars

\* lines 100-103: res.setHeader throws on one entry, after some were set
SetHeaderThrows ==
    /\ pc = "APPLY_HEADERS"
    /\ stages' = Append(stages, "APPLY_HEADERS")
    /\ calls' = Append(calls, Call("getSecurityHeaders", <<>>))
    /\ \E out \in HeaderMaps :
          \E done \in SUBSET out :
             /\ done # out
             /\ secHeaders' = [entries |-> out]
             /\ resHeaders' = SetHeaders(resHeaders, done)
    /\ error' = "res.setHeader"
    /\ pc' = "CATCH"
    /\ UNCHANGED <<req, clientIp, userAgent, blockCheck, ddosCheck,
                   ddosBlocked, resStatus, resBody, security, nextCalls,
                   escaped>>
    /\ UNCHANGED svcVars
    /\ UNCHANGED propVars

\* line 112: next() is invoked and throws
ForwardThrows ==
    /\ pc = "FORWARD"
    /\ stages' = Append(stages, "FORWARD")
    /\ nextCalls' = nextCalls + 1
    /\ error' = "next"
    /\ pc' = "CATCH"
    /\ UNCHANGED <<req, clientIp, userAgent, blockCheck, ddosCheck,
                   ddosBlocked, secHeaders, resStatus, resBody, resHeaders,
                   security, calls, escaped>>
    /\ UNCHANGED svcVars
    /\ UNCHANGED propVars

\* line 116: next() is invoked in the catch block and throws; nothing
\* catches it
CatchErrorThrows ==
    /\ pc = "CATCH"
    /\ nextCalls' = nextCalls + 1
    /\ escaped' = TRUE
    /\ pc' = "DONE"
    /\ UNCHANGED <<req, clientIp, userAgent, blockCheck, ddosCheck,
                   ddosBlocked, secHeaders, resStatus, resBody, resHeaders,
                   security, calls, stages, error>>
    /\ UNCHANGED svcVars
    /\ UNCHANGED propVars

NextFault ==
    \/ Next
    \/ BlocklistRespondThrows
    \/ TrafficRespondThrows
    \/ DdosRespondThrows
    \/ SetHeaderThrows
    \/ ForwardThrows
    \/ CatchErrorThrows

SpecFault == Init /\ [][NextFault]_vars

\* C18: for every call of use(), next is invoked at most once, and never for
\* a request on which a 403 or 429 response has been started, whichever call
\* inside the try block throws.
C18_NextAtMostOnce ==
    /\ nextCalls <= 1
    /\ resStatus # 0 => nextCalls = 0

----------------------------------------------------------------------------
(* IpBlockingService under administrative calls. A call is invoked (it     *)
(* takes the clock as its creation time) and applied later, so calls for   *)
(* one key overlap; the update of one key is atomic (section 5).           *)

AdminOp(op, k, reason, ttl) ==
    [op |-> op, key |-> k, reason |-> reason, ttl |-> ttl, at |-> now,
     id |-> Len(history.ops) + 1]

InvokeAddBlock ==
    /\ Len(history.ops) < MaxOps
    /\ \E k \in Keys, reason \in Reasons, ttl \in Ttls :
        LET op == AdminOp("addBlock", k, reason, ttl)
        IN  /\ pending' = pending \cup {op}
            /\ history' = [history EXCEPT !.ops = Append(@, op)]
    /\ UNCHANGED <<now, blocklist, window, decision, rq>>
    /\ UNCHANGED useVars
    /\ UNCHANGED propVars

InvokeRemoveBlock ==
    /\ Len(history.ops) < MaxOps
    /\ \E k \in Keys :
        LET op == AdminOp("removeBlock", k, "undefined", NoTtl)
        IN  /\ pending' = pending \cup {op}
            /\ history' = [history EXCEPT !.ops = Append(@, op)]
    /\ UNCHANGED <<now, blocklist, window, decision, rq>>
    /\ UNCHANGED useVars
    /\ UNCHANGED propVars

ApplyAddBlock ==
    /\ \E op \in pending :
        /\ op.op = "addBlock"
        /\ blocklist' = [blocklist EXCEPT ![op.key] = ApplyAdd(@, op)]
        /\ pending' = pending \ {op}
        /\ history' = [history EXCEPT !.applied =
                Append(@, [op |-> op,
                           stored |-> AddWins(blocklist[op.key], op)])]
    /\ UNCHANGED <<now, window, decision, rq>>
    /\ UNCHANGED useVars
    /\ UNCHANGED propVars

ApplyRemoveBlock ==
    /\ \E op \in pending :
        /\ op.op = "removeBlock"
        /\ blocklist' = [blocklist EXCEPT ![op.key] = ApplyRemove(@, op)]
        /\ pending' = pending \ {op}
        /\ history' = [history EXCEPT !.applied =
                Append(@, [op |-> op, stored |-> TRUE])]
    /\ UNCHANGED <<now, window, decision, rq>>
    /\ UNCHANGED useVars
    /\ UNCHANGED propVars

\* the clock
Tick ==
    /\ now < MaxTime
    /\ now' = now + 1
    /\ UNCHANGED <<blocklist, pending, window, decision, history, rq>>
    /\ UNCHANGED useVars
    /\ UNCHANGED propVars

\* shouldBlockRequest(ip, userAgent, path) asked for a key
ShouldBlockRequest ==
    /\ \E k \in Keys :
        decision' = [fn |-> "shouldBlockRequest", key |-> k,
                     result |-> shouldBlockRequest(blocklist[k], now)]
    /\ UNCHANGED <<now, blocklist, pending, window, history, rq>>
    /\ UNCHANGED useVars
    /\ UNCHANGED propVars

\* the middleware is idle while the services are exercised
IdleRequest == CHOOSE r \in RequestsOfLen(0, 0, {Undefined}) : TRUE

InitSvc == InitWith({IdleRequest})

NextBlock ==
    \/ InvokeAddBlock
    \/ InvokeRemoveBlock
    \/ ApplyAddBlock
    \/ ApplyRemoveBlock
    \/ Tick
    \/ ShouldBlockRequest

SpecBlock == InitSvc /\ [][NextBlock]_vars

\* the applied calls of key k, by position in the order of application
AppliedTo(k) ==
    {i \in DOMAIN history.applied : history.applied[i].op.key = k}

RemovedAfter(k, i) ==
    \E j \in AppliedTo(k) :
        j > i /\ history.applied[j].op.op = "removeBlock"

\* a permanent addBlock(k) was stored and no removeBlock(k) came after it
PermanentlyAdded(k) ==
    \E i \in AppliedTo(k) :
        /\ history.applied[i].op.op = "addBlock"
        /\ history.applied[i].op.ttl = NoTtl
        /\ history.applied[i].stored
        /\ ~RemovedAfter(k, i)

\* the last addBlock(k) stored is a permanent one and no removeBlock(k)
\* came after it
PermanentlyAddedLast(k) ==
    \E i \in AppliedTo(k) :
        /\ history.applied[i].op.op = "addBlock"
        /\ history.applied[i].op.ttl = NoTtl
        /\ history.applied[i].stored
        /\ ~RemovedAfter(k, i)
        /\ \A j \in AppliedTo(k) :
            j > i => ~(/\ history.applied[j].op.op = "addBlock"
                       /\ history.applied[j].stored)

BlockedWithStoredReason(k) ==
    /\ blocklist[k].manual # NoResult
    /\ shouldBlockRequest(blocklist[k], now) =
         [shouldBlock |-> TRUE, reason |-> blocklist[k].manual.reason]

\* C14 as stated: after addBlock(K, reason) without ttl, shouldBlockRequest
\* for K answers shouldBlock=true with the stored reason in every state until
\* removeBlock(K) is applied.
C14_PermanentUntilRemoved ==
    \A k \in Keys : PermanentlyAdded(k) => BlockedWithStoredReason(k)

\* C14 amended: after addBlock(K, reason) without ttl, shouldBlockRequest for
\* K answers shouldBlock=true with the stored reason in every state until
\* removeBlock(K) is applied or a later addBlock(K) replaces the entry.
C14_PermanentUntilRemovedOrReplaced ==
    \A k \in Keys : PermanentlyAddedLast(k) => BlockedWithStoredReason(k)

\* a permanent entry of K is asked about after the clock moved on
C14_Witness ==
    /\ decision # NoResult
    /\ PermanentlyAddedLast(decision.key)
    /\ now > blocklist[decision.key].manual.createdAt
    /\ decision.result = shouldBlockRequest(blocklist[decision.key], now)
    /\ decision.result.shouldBlock

\* the calls invoked for key k
OpsOf(k, kind) ==
    {history.ops[i] : i \in {j \in DOMAIN history.ops :
        history.ops[j].key = k /\ history.ops[j].op = kind}}

\* the creation time of the latest removeBlock(k) invoked, -1 without one
LastRemoval(k) ==
    IF OpsOf(k, "removeBlock") = {} THEN -1
    ELSE CHOOSE t \in {op.at : op \in OpsOf(k, "removeBlock")} :
            \A op \in OpsOf(k, "removeBlock") : op.at <= t

\* the addBlock(k) calls the rule lets win: created after every removal and
\* not before any other such call
Survivors(k) ==
    {a \in OpsOf(k, "addBlock") :
        /\ a.at > LastRemoval(k)
        /\ \A b \in OpsOf(k, "addBlock") : b.at <= a.at}

\* C16: under overlapping addBlock and removeBlock calls for one key, no
\* entry created up to an applied removal is stored (none resurrected, none
\* left behind), and once all calls are applied the stored entry is the one
\* the creation times decide, whatever the order of application.
C16_RemovalNotResurrected ==
    \A k \in Keys :
        /\ \A i \in AppliedTo(k) :
            (/\ history.applied[i].op.op = "removeBlock"
             /\ blocklist[k].manual # NoResult)
                => blocklist[k].manual.createdAt > history.applied[i].op.at
        /\ pending = {} =>
            IF Survivors(k) = {}
            THEN blocklist[k].manual = NoResult
            ELSE blocklist[k].manual \in {ManualEntry(a) : a \in Survivors(k)}

\* a removeBlock(K) was applied, then an addBlock(K) invoked before it
C16_Witness ==
    /\ pending = {}
    /\ \E k \in Keys : \E i, j \in AppliedTo(k) :
        /\ i < j
        /\ history.applied[i].op.op = "removeBlock"
        /\ history.applied[j].op.op = "addBlock"
        /\ history.applied[j].op.at < history.applied[i].op.at
        /\ blocklist[k].manual = NoResult

----------------------------------------------------------------------------
(* DdosProtectionService: traffic accounting and auto-blocks. The update   *)
(* of one key's window is atomic (section 5), so concurrent calls are the  *)
(* steps below in any order.                                               *)

\* monitorTraffic(ip, userAgent, path): count the hit, decide, and install
\* or extend the auto-block on an attack
MonitorTraffic ==
    /\ Len(history.hits) < MaxHits
    /\ \E k \in Keys :
        LET w   == RecordHit(window[k], now)
            dec == AttackDecision(w, now)
        IN  /\ window' = [window EXCEPT ![k] = w]
            /\ blocklist' = [blocklist EXCEPT ![k] =
                    IF dec.isAttack THEN InstallAutoBlock(@, now) ELSE @]
            /\ decision' = [fn |-> "monitorTraffic", key |-> k,
                            result |-> dec]
            /\ history' = [history EXCEPT !.hits =
                    Append(@, [key |-> k, at |-> now])]
    /\ UNCHANGED <<now, pending, rq>>
    /\ UNCHANGED useVars
    /\ UNCHANGED propVars

\* isIpBlockedForDdos(ip) asked for a key
IsIpBlockedForDdos ==
    /\ \E k \in Keys :
        decision' = [fn |-> "isIpBlockedForDdos", key |-> k,
                     result |-> [blocked |->
                                   isIpBlockedForDdos(blocklist[k], now)]]
    /\ UNCHANGED <<now, blocklist, pending, window, history, rq>>
    /\ UNCHANGED useVars
    /\ UNCHANGED propVars

\* the window of an inactive key is evicted
Evict ==
    /\ \E k \in Keys :
        /\ Inactive(window[k], now)
        /\ window' = [window EXCEPT ![k] = NoResult]
        /\ history' = [history EXCEPT !.evicted = @ \cup {k}]
    /\ UNCHANGED <<now, blocklist, pending, decision, rq>>
    /\ UNCHANGED useVars
    /\ UNCHANGED propVars

NextDdos ==
    \/ MonitorTraffic
    \/ IsIpBlockedForDdos
    \/ Evict
    \/ Tick
    \/ ShouldBlockRequest

SpecDdos == InitSvc /\ [][NextDdos]_vars

\* the monitorTraffic calls up to the i-th that hit its key after time from
CallsSince(i, from) ==
    Cardinality({j \in 1..i :
        /\ history.hits[j].key = history.hits[i].key
        /\ history.hits[j].at > from})

\* the i-th call is the N-th of its key inside the short horizon, N above
\* the burst threshold
Burst(i) ==
    CallsSince(i, history.hits[i].at - ShortHorizon) > BurstThreshold

Sustained(i) ==
    CallsSince(i, history.hits[i].at - LongHorizon) > SustainedThreshold

\* C15: a monitorTraffic call that is the N-th of its key within the short
\* horizon, N above the burst threshold, answers isAttack=true (calls below
\* both thresholds answer false), and from then until the TTL has run out
\* isIpBlockedForDdos answers true for the key, whatever traffic follows.
C15_BurstInstallsAutoBlock ==
    /\ \A i \in DOMAIN history.hits :
        (Burst(i) /\ now < history.hits[i].at + AutoBlockTtl)
            => isIpBlockedForDdos(blocklist[history.hits[i].key], now)
    /\ (decision # NoResult /\ decision.fn = "monitorTraffic") =>
        decision.result.isAttack =
            (Burst(Len(history.hits)) \/ Sustained(Len(history.hits)))

\* a burst, then the clock moves on without traffic and the key is asked
\* about before the TTL has run out
C15_Witness ==
    /\ decision # NoResult
    /\ decision.fn = "isIpBlockedForDdos"
    /\ decision.result.blocked
    /\ \E i \in DOMAIN history.hits :
        /\ Burst(i)
        /\ history.hits[i].key = decision.key
        /\ \A j \in DOMAIN history.hits : history.hits[j].at <= history.hits[i].at
        /\ history.hits[i].at < now
        /\ now < history.hits[i].at + AutoBlockTtl

\* the monitorTraffic calls for key k after time from
CallsFor(k, from) ==
    Cardinality({j \in DOMAIN history.hits :
        history.hits[j].key = k /\ history.hits[j].at > from})

----------------------------------------------------------------------------
(* Several calls of use() for one client, interleaved at the awaits of     *)
(* lines 55, 72, 89 and 100. A step evaluates one awaited service call on  *)
(* the shared state; the code after the await runs at the start of the     *)
(* request's next step. No service throws here.                            *)

\* the client of the interleaved requests
ConcKey == <<"c">>

NewRequest ==
    [pc |-> "BLOCKLIST_CHECK", blockCheck |-> NoResult, ddosCheck |-> NoResult,
     ddosBlocked |-> NoResult, resStatus |-> 0, nextCalls |-> 0]

\* a request enters use(); lines 48-52 have no await
ConcArrive ==
    /\ Len(rq) < NumReq
    /\ rq' = Append(rq, NewRequest)
    /\ UNCHANGED <<now, blocklist, pending, window, decision, history>>
    /\ UNCHANGED useVars
    /\ UNCHANGED propVars

\* lines 55-59: shouldBlockRequest is evaluated
ConcBlocklistCheck ==
    /\ \E r \in DOMAIN rq :
        /\ rq[r].pc = "BLOCKLIST_CHECK"
        /\ rq' = [rq EXCEPT ![r] = [@ EXCEPT
                !.blockCheck = shouldBlockRequest(blocklist[ConcKey], now),
                !.pc = "TRAFFIC_MONITOR"]]
    /\ UNCHANGED <<now, blocklist, pending, window, decision, history>>
    /\ UNCHANGED useVars
    /\ UNCHANGED propVars

\* lines 61-76: 403 for a blocked request, else monitorTraffic is evaluated
ConcTrafficMonitor ==
    /\ \E r \in DOMAIN rq :
        /\ rq[r].pc = "TRAFFIC_MONITOR"
        /\ IF rq[r].blockCheck.shouldBlock
           THEN /\ rq' = [rq EXCEPT ![r] = [@ EXCEPT
                        !.resStatus = 403, !.pc = "DONE"]]
                /\ UNCHANGED <<blocklist, window, history>>
           ELSE LET w   == RecordHit(window[ConcKey], now)
                    dec == AttackDecision(w, now)
                IN  /\ window' = [window EXCEPT ![ConcKey] = w]
                    /\ blocklist' = [blocklist EXCEPT ![ConcKey] =
                            IF dec.isAttack THEN InstallAutoBlock(@, now)
                            ELSE @]
                    /\ history' = [history EXCEPT !.hits =
                            Append(@, [key |-> ConcKey, at |-> now])]
                    /\ rq' = [rq EXCEPT ![r] = [@ EXCEPT
                            !.ddosCheck = dec, !.pc = "DDOS_BLOCK_CHECK"]]
    /\ UNCHANGED <<now, pending, decision>>
    /\ UNCHANGED useVars
    /\ UNCHANGED propVars

\* lines 78-89: 429 on an attack, else isIpBlockedForDdos is evaluated
ConcDdosBlockCheck ==
    /\ \E r \in DOMAIN rq :
        /\ rq[r].pc = "DDOS_BLOCK_CHECK"
        /\ rq' = [rq EXCEPT ![r] =
                IF rq[r].ddosCheck.isAttack
                THEN [@ EXCEPT !.resStatus = 429, !.pc = "DONE"]
                ELSE [@ EXCEPT
                        !.ddosBlocked = [blocked |->
                            isIpBlockedForDdos(blocklist[ConcKey], now)],
                        !.pc = "APPLY_HEADERS"]]
    /\ UNCHANGED <<now, blocklist, pending, window, decision, history>>
    /\ UNCHANGED useVars
    /\ UNCHANGED propVars

\* lines 89-100: 429 for an auto-blocked client, else getSecurityHeaders is
\* evaluated
ConcApplyHeaders ==
    /\ \E r \in DOMAIN rq :
        /\ rq[r].pc = "APPLY_HEADERS"
        /\ rq' = [rq EXCEPT ![r] =
                IF rq[r].ddosBlocked.blocked
                THEN [@ EXCEPT !.resStatus = 429, !.pc = "DONE"]
                ELSE [@ EXCEPT !.pc = "FORWARD"]]
    /\ UNCHANGED <<now, blocklist, pending, window, decision, history>>
    /\ UNCHANGED useVars
    /\ UNCHANGED propVars

\* lines 101-112: headers, req.security, next()
ConcForward ==
    /\ \E r \in DOMAIN rq :
        /\ rq[r].pc = "FORWARD"
        /\ rq' = [rq EXCEPT ![r] = [@ EXCEPT
                !.nextCalls = @ + 1, !.pc = "DONE"]]
    /\ UNCHANGED <<now, blocklist, pending, window, decision, history>>
    /\ UNCHANGED useVars
    /\ UNCHANGED propVars

NextConc ==
    \/ ConcArrive
    \/ ConcBlocklistCheck
    \/ ConcTrafficMonitor
    \/ ConcDdosBlockCheck
    \/ ConcApplyHeaders
    \/ ConcForward
    \/ Tick

SpecConc == InitSvc /\ [][NextConc]_vars

\* C19: while an auto-block of the client is active, no step forwards a
\* request of that client, whatever the request had passed before.
C19_NoForwardOnceBlocked ==
    [][\A r \in DOMAIN rq :
        (/\ isIpBlockedForDdos(blocklist[ConcKey], now)
         /\ rq[r].nextCalls = 0)
            => rq'[r].nextCalls = 0]_vars

\* a request is forwarded only if the auto-block was not active when its
\* isIpBlockedForDdos call was evaluated: the answer it carries is false
ForwardedPassedGate ==
    \A r \in DOMAIN rq :
        rq[r].nextCalls > 0 =>
            /\ rq[r].nextCalls = 1
            /\ rq[r].resStatus = 0
            /\ ~rq[r].blockCheck.shouldBlock
            /\ ~rq[r].ddosCheck.isAttack
            /\ ~rq[r].ddosBlocked.blocked

\* a request that passed its blocklist check before the block was installed
\* is answered 429 by the later gate
StoppedAfterPassing ==
    \E r \in DOMAIN rq :
        /\ rq[r].blockCheck # NoResult
        /\ ~rq[r].blockCheck.shouldBlock
        /\ rq[r].ddosCheck # NoResult
        /\ ~rq[r].ddosCheck.isAttack
        /\ rq[r].resStatus = 429

----------------------------------------------------------------------------
(* PropertiesService over any property table; the middleware is idle       *)

InitProp == InitOver({IdleRequest}, Stores)

NextProp ==
    \/ Update
    \/ UpdateStatus
    \/ Remove

SpecProp == InitProp /\ [][NextProp]_vars

\* the edges of the workflow, written out
Edges ==
    {<<"DRAFT", "DRAFT">>, <<"DRAFT", "PENDING">>, <<"DRAFT", "APPROVED">>,
     <<"PENDING", "PENDING">>, <<"PENDING", "APPROVED">>,
     <<"PENDING", "DRAFT">>,
     <<"APPROVED", "APPROVED">>, <<"APPROVED", "LISTED">>,
     <<"APPROVED", "DRAFT">>,
     <<"LISTED", "LISTED">>, <<"LISTED", "SOLD">>, <<"LISTED", "REMOVED">>,
     <<"SOLD", "SOLD">>,
     <<"REMOVED", "REMOVED">>, <<"REMOVED", "DRAFT">>}

\* the status the DTO value stands for, written out
Target(status) ==
    IF status = "AVAILABLE" THEN "LISTED"
    ELSE IF status = "PENDING" THEN "PENDING"
    ELSE IF status \in {"SOLD", "RENTED"} THEN "SOLD"
    ELSE "DRAFT"

\* C21: after updateStatus(id, newStatus): a missing property gives
\* NotFoundException and no write; a pair (stored status, mapped target)
\* outside the table gives BadRequestException, no write, and the stored row
\* as it was; otherwise the stored status is the mapped target, reached along
\* an edge of the table, and nothing else of the row changed.
C21_StatusAlongEdges ==
    (outcome # NoResult /\ outcome.fn = "updateStatus") =>
        IF outcome.before = NoResult
        THEN /\ outcome.raised = "NotFoundException"
             /\ ~outcome.wrote
             /\ store[outcome.id] = NoResult
        ELSE IF <<outcome.before.status, Target(outcome.status)>> \notin Edges
             THEN /\ outcome.raised = "BadRequestException"
                  /\ ~outcome.wrote
                  /\ store[outcome.id] = outcome.before
             ELSE /\ outcome.raised = "none"
                  /\ store[outcome.id] =
                       [outcome.before EXCEPT
                            !.status = Target(outcome.status)]

\* updateStatus refused a transition that is not in the table
C21_Witness ==
    /\ outcome # NoResult
    /\ outcome.fn = "updateStatus"
    /\ outcome.raised = "BadRequestException"
    /\ outcome.before.status = "LISTED"
    /\ outcome.status = "PENDING"
    /\ store[outcome.id].status = "LISTED"

\* C22: no step takes the stored status of a property away from SOLD.
C22_SoldIsTerminal ==
    [][\A id \in PropertyIds :
        (/\ store[id] # NoResult
         /\ store[id].status = "SOLD"
         /\ store'[id] # NoResult)
            => store'[id].status = "SOLD"]_vars

====
